---- MODULE Spec2Model ----
(***************************************************************************)
(* Branch-per-tenant content store (BaseRepo and its Prompt / Snippet /    *)
(* Script variants) and the template hydration engine (TemplateManager)    *)
(* of promptdir/utils/snippet_repo.py.                                     *)
(*                                                                         *)
(* Strings are sequences of one-character strings, so that address         *)
(* parsing, placeholder scanning, replacement and sorting are computed on  *)
(* characters as the Python code computes them.                            *)
(***************************************************************************)
EXTENDS Integers, Sequences, FiniteSets, TLC

(***************************************************************************)
(* Bounds of the model.                                                    *)
(***************************************************************************)
\* longest template body enumerated by the hydration specification
MaxLen == 6
\* longest branch name enumerated by the specification of the paths
MaxBranchLen == 3

NL == "\n"
NoFile == "<absent>"

Min(S) == CHOOSE x \in S : \A y \in S : x <= y

(***************************************************************************)
(* Python string primitives.                                               *)
(***************************************************************************)
\* s.find(ch, i): the first index >= i holding ch, 0 when there is none
IndexFrom(s, ch, i) ==
    LET hits == { j \in i..Len(s) : s[j] = ch }
    IN  IF hits = {} THEN 0 ELSE Min(hits)

\* old in s
Contains(s, ch) == \E i \in 1..Len(s) : s[i] = ch

\* s.startswith(p)
StartsWith(s, p) == Len(s) >= Len(p) /\ SubSeq(s, 1, Len(p)) = p

\* s.split(sep) for a one-character separator
RECURSIVE split(_, _)
split(s, sep) ==
    LET i == IndexFrom(s, sep, 1)
    IN  IF i = 0 THEN <<s>>
        ELSE <<SubSeq(s, 1, i - 1)>> \o split(SubSeq(s, i + 1, Len(s)), sep)

\* sep.join(parts)
RECURSIVE join(_, _)
join(sep, parts) ==
    IF parts = <<>> THEN <<>>
    ELSE IF Len(parts) = 1 THEN parts[1]
    ELSE parts[1] \o sep \o join(sep, Tail(parts))

\* s.replace(old, new): every non-overlapping occurrence, left to right
RECURSIVE replace(_, _, _)
replace(s, old, new) ==
    LET occ == { i \in 1..(Len(s) - Len(old) + 1) :
                    SubSeq(s, i, i + Len(old) - 1) = old }
    IN  IF occ = {} THEN s
        ELSE LET i == Min(occ)
             IN  SubSeq(s, 1, i - 1) \o new
                   \o replace(SubSeq(s, i + Len(old), Len(s)), old, new)

(***************************************************************************)
(* re.findall(r"{(.*?)}", template): a match starts at a "{" and ends at   *)
(* the first "}" after it, provided no newline lies between ("." does not  *)
(* match a newline); the scan resumes after the match.                     *)
(***************************************************************************)
MatchEnd(t, i) ==
    LET j == IndexFrom(t, "}", i + 1)
    IN  IF j # 0 /\ \A k \in (i + 1)..(j - 1) : t[k] # NL THEN j ELSE 0

MatchStarts(t) == { i \in 1..Len(t) : t[i] = "{" /\ MatchEnd(t, i) # 0 }

RECURSIVE findall(_)
findall(t) ==
    IF MatchStarts(t) = {} THEN <<>>
    ELSE LET i == Min(MatchStarts(t))
             j == MatchEnd(t, i)
         IN  <<SubSeq(t, i + 1, j - 1)>> \o findall(SubSeq(t, j + 1, Len(t)))

(***************************************************************************)
(* An argument mapping is a Python dict: a sequence of <<key, value>>      *)
(* pairs with distinct keys, in insertion order.                           *)
(***************************************************************************)
Keys(args) == [i \in 1..Len(args) |-> args[i][1]]
Range(q) == { q[i] : i \in 1..Len(q) }
HasKey(args, k) == \E i \in 1..Len(args) : args[i][1] = k
Get(args, k) == args[CHOOSE i \in 1..Len(args) : args[i][1] = k][2]

(***************************************************************************)
(* TemplateManager.hydrate                                                 *)
(***************************************************************************)
\* missing = [key for key in placeholders if key not in args]
MissingKeys(placeholders, args) ==
    LET absent(k) == ~HasKey(args, k) IN SelectSeq(placeholders, absent)

\* for key in placeholders: template = template.replace("{" + key + "}", args[key])
RECURSIVE substitute(_, _, _)
substitute(template, placeholders, args) ==
    IF placeholders = <<>> THEN template
    ELSE substitute(
            replace(template, <<"{">> \o Head(placeholders) \o <<"}">>,
                    Get(args, Head(placeholders))),
            Tail(placeholders), args)

\* extras = {k: v for k, v in args.items() if k not in placeholders}
Extras(placeholders, args) ==
    LET extra(kv) == kv[1] \notin Range(placeholders) IN SelectSeq(args, extra)

\* f"{k} is {v}"
Clause(kv) == kv[1] \o <<" ", "i", "s", " ">> \o kv[2]

\* AppendExtras without the separator that opens the first clause
AppendExtras_no_separator(text, extras) ==
    IF extras = <<>> THEN text
    ELSE text \o join(<<",", " ">>, [i \in 1..Len(extras) |-> Clause(extras[i])])

\* template += ", " + ", ".join(f"{k} is {v}" for k, v in extras.items())
AppendExtras(text, extras) ==
    IF extras = <<>> THEN text
    ELSE text \o <<",", " ">>
           \o join(<<",", " ">>, [i \in 1..Len(extras) |-> Clause(extras[i])])

\* if suffix: template += ", " + suffix
AppendSuffix(text, suffix) ==
    IF suffix # <<>> THEN text \o <<",", " ">> \o suffix ELSE text

hydrate(templates, template_name, args, suffix) ==
    IF template_name \notin DOMAIN templates
    THEN [result |-> "TemplateNotFound"]
    ELSE LET template == templates[template_name]
             placeholders == findall(template)
             missing == MissingKeys(placeholders, args)
         IN  IF missing # <<>>
             THEN [result |-> "MissingArguments",
                   missing |-> missing,
                   required |-> placeholders,
                   provided |-> Keys(args)]
             ELSE [result |-> "ok",
                   text |-> AppendSuffix(
                               AppendExtras(
                                  substitute(template, placeholders, args),
                                  Extras(placeholders, args)),
                               suffix)]

(***************************************************************************)
(* The store.  An item file is a pair <<branch, name>>; an address is the  *)
(* string "owner/name" or a bare "name"; a map is a function whose DOMAIN  *)
(* is the set of keys present.                                             *)
(***************************************************************************)
VARIABLES
    username,          \* get_username(): the acting identity
    kind,              \* "prompt", "snippet" or "script": the repo class
    branches,          \* the branches of the bare clone
    worktrees,         \* branches whose working tree exists on disk
    files,             \* <<branch, name>> -> content of the file in that working tree
    head,              \* <<branch, name>> -> content committed on the local branch
    origin,            \* <<branch, name>> -> content pushed to origin/<branch>
    cached_items,      \* BaseRepo.cached_items: "branch/name" -> content
    cached_templates,  \* TemplateManager.cached_templates (prompt kind)
    repo_slug,         \* BaseRepo.repo_slug
    disk,              \* base_dir: path -> the bare clone or working tree there
    last               \* the operation just performed, its steps and its outcome

vars == <<username, kind, branches, worktrees, files, head, origin,
          cached_items, cached_templates, repo_slug, disk, last>>

Users == { <<"a">>, <<"b">> }
Names == { <<"x">>, <<"y">> }
Kinds == { "prompt", "snippet", "script" }

\* a script with a shebang line, and a template body without one
WithShebang == <<"#", "!", "a">>
NoShebang == <<"{", "a", "}">>
Contents == { WithShebang, NoShebang }

\* f"{branch}/{item}"
Address(branch, item) == branch \o <<"/">> \o item

\* the addresses an operator may type: bare names and owner/name
Addresses == Names \cup { Address(u, n) : u \in Users, n \in Names }

EmptyMap == [k \in {} |-> NoFile]
Put(m, k, v) == [x \in (DOMAIN m) \cup {k} |-> IF x = k THEN v ELSE m[x]]
Del(m, k) == [x \in (DOMAIN m) \ {k} |-> m[x]]
Lookup(m, k) == IF k \in DOMAIN m THEN m[k] ELSE NoFile

\* one step of an operation: a file or version-control action on a branch
Step(s, b) == [step |-> s, branch |-> b]

(***************************************************************************)
(* BaseRepo._generate_map_of_item_names_to_content: the scan of every      *)
(* branch's content directory.                                             *)
(***************************************************************************)
ScanMap(bs, f) ==
    LET present == { p \in DOMAIN f : p[1] \in bs }
        keys == { Address(p[1], p[2]) : p \in present }
    IN  [k \in keys |->
            f[CHOOSE p \in present : Address(p[1], p[2]) = k]]

_generate_map_of_item_names_to_content == ScanMap(branches, files)

(***************************************************************************)
(* The paths of BaseRepo.__init__ and get_worktree_dir.  A path is the     *)
(* sequence of its components; base / segment drops the empty and "."      *)
(* components of the segment, and a segment that starts with "/" replaces  *)
(* the base, as pathlib does.                                              *)
(***************************************************************************)
\* os.path.expanduser(base_dir)
BaseDir == << <<"~">> >>

\* the components pathlib keeps of a segment
Components(segment) ==
    LET kept(c) == c # <<>> /\ c # <<".">>
    IN  SelectSeq(split(segment, "/"), kept)

\* base / segment
PathJoin(base, segment) ==
    IF segment # <<>> /\ Head(segment) = "/"
    THEN << <<"/">> >> \o Components(segment)
    ELSE base \o Components(segment)

\* self.repo_name = repo_slug.replace("/", "_")
repo_name(slug) == replace(slug, <<"/">>, <<"_">>)

\* self.base_dir / f"{self.repo_name}.bare"
bare_repo_path(slug) ==
    PathJoin(BaseDir, repo_name(slug) \o <<".", "b", "a", "r", "e">>)

\* get_worktree_dir with the slash of a branch name flattened as in repo_name
get_worktree_dir_flat(slug, branch) ==
    PathJoin(BaseDir, repo_name(slug) \o <<"_">> \o replace(branch, <<"/">>, <<"_">>))

\* self.base_dir / f"{self.repo_name}_{branch}"
get_worktree_dir(slug, branch) ==
    PathJoin(BaseDir, repo_name(slug) \o <<"_">> \o branch)

\* what lies at a path: the bare clone of a repository with its branches, or
\* the working tree of one branch of the repository it was added from
BareClone(slug, bs) == [kind |-> "bare", slug |-> slug, refs |-> bs]
WorkingTree(slug, branch) == [kind |-> "worktree", slug |-> slug, refs |-> {branch}]

(***************************************************************************)
(* The outcome of an operation: its result ("ok" or the exception raised), *)
(* the steps it performed, what it printed or returned, and the state it   *)
(* leaves.  Raise(err) is an exception raised with the state untouched.    *)
(***************************************************************************)
Raise(err) ==
    [result |-> err, trace |-> <<>>, out |-> <<>>, branches |-> branches,
     worktrees |-> worktrees, files |-> files, head |-> head, origin |-> origin,
     cached_items |-> cached_items, cached_templates |-> cached_templates]

Done == Raise("ok")

(***************************************************************************)
(* GitCommandRunner.run_in_worktree for add, commit and push.  A command   *)
(* that exits non-zero raises; gf names the command that fails, if any     *)
(* ("branch" is the `git branch -a` of _list_branches).                    *)
(* The index is not modelled: a commit records the paths just added.       *)
(***************************************************************************)
GitFailures == { "none", "add", "commit", "push", "branch" }
\* every command exits 0
NoFailure == { "none" }

\* the local branch after `git add <paths>; git commit`
Committed(h, f, paths) ==
    [p \in ((DOMAIN h) \ paths) \cup (paths \cap DOMAIN f) |->
        IF p \in paths THEN f[p] ELSE h[p]]

\* origin after `git push origin <branch>`
Pushed(o, h, b) ==
    [p \in { q \in DOMAIN o : q[1] # b } \cup { q \in DOMAIN h : q[1] = b } |->
        IF p[1] = b THEN h[p] ELSE o[p]]

\* the commit message f"{verb} {self.item_name_singular}: {item}"
Message(verb, item) == <<verb, " ", kind, ":", " ">> \o item

\* run_in_worktree(worktree, "commit", "-m", message)
Commit(b, message) == [step |-> "commit", branch |-> b, message |-> message]

\* run_in_worktree(add), run_in_worktree(commit), run_in_worktree(push)
stage_commit_push(r, b, paths, message, gf) ==
    LET add == <<Step("add", b)>>
        commit == <<Step("add", b), Commit(b, message)>>
        push == <<Step("add", b), Commit(b, message), Step("push", b)>>
        h2 == Committed(r.head, r.files, paths)
    IN  CASE gf = "add" \/ paths \cap (DOMAIN r.files \cup DOMAIN r.head) = {} ->
               \* `git add` exits 128 when no path matches a file or a tracked path
               [r EXCEPT !.result = "ExternalCommandFailure", !.trace = @ \o add]
          [] gf = "commit" \/ h2 = r.head ->    \* `git commit` exits 1 on nothing to commit
               [r EXCEPT !.result = "ExternalCommandFailure", !.trace = @ \o commit]
          [] gf = "push" ->
               [r EXCEPT !.result = "ExternalCommandFailure", !.trace = @ \o push,
                         !.head = h2]
          [] OTHER ->
               [r EXCEPT !.trace = @ \o push, !.head = h2,
                         !.origin = Pushed(r.origin, h2, b)]

(***************************************************************************)
(* BaseRepo.load_items / PromptRepo.load_items -> load_templates.  The     *)
(* rescan starts with _list_branches (`git branch -a`), which raises under *)
(* gf = "branch".  BaseRepo.load_items has cleared the dict in place by    *)
(* then; PromptRepo.load_items assigns only after the scan returned.       *)
(***************************************************************************)
\* load_items that leaves the cache as it is
load_items_no_rescan(r, gf) ==
    [r EXCEPT !.trace = @ \o <<Step("load_items", <<>>)>>]

load_items(r, gf) ==
    LET scan == ScanMap(branches, r.files)
        started == [r EXCEPT !.trace = @ \o <<Step("load_items", <<>>)>>]
    IN  IF gf = "branch"
        THEN [started EXCEPT
                !.result = "ExternalCommandFailure",
                !.cached_items = IF kind = "prompt" THEN @ ELSE EmptyMap]
        ELSE [started EXCEPT
                !.worktrees = @ \cup branches,
                !.cached_items = scan,
                !.cached_templates = IF kind = "prompt" THEN scan ELSE @]

\* user = address.split("/")[0] if "/" in address else self.get_username()
OwnerOf(address) ==
    IF Contains(address, "/") THEN split(address, "/")[1] ELSE username

\* item = address.split("/")[-1]
ItemOf(address) == LET parts == split(address, "/") IN parts[Len(parts)]

(***************************************************************************)
(* BaseRepo.read_item                                                      *)
(***************************************************************************)
\* what read_item finds at an address in the working trees f
ReadFile(f, address) ==
    LET item_path == <<OwnerOf(address), ItemOf(address)>>
    IN  IF item_path \notin DOMAIN f
        THEN [result |-> "FileNotFoundError", out |-> <<>>]
        ELSE [result |-> "ok", out |-> f[item_path]]

read_item(address) ==
    LET r == ReadFile(files, address)
    IN  [Done EXCEPT !.result = r.result, !.out = r.out]

\* write_item without the owner check
write_item_no_owner_check(address, content, gf) ==
    LET parts == split(address, "/")
    IN  IF Len(parts) # 2 THEN Raise("ValueError")
        ELSE LET user == parts[1]
                 item_path == <<user, parts[2]>>
                 written == [Done EXCEPT
                               !.trace = <<Step("write_text", user)>>,
                               !.files = Put(files, item_path, content)]
                 pushed == stage_commit_push(written, user, {item_path},
                                             Message("Update", parts[2]), gf)
             IN  IF pushed.result # "ok" THEN pushed ELSE load_items(pushed, gf)

(***************************************************************************)
(* BaseRepo.write_item                                                     *)
(***************************************************************************)
write_item(address, content, gf) ==
    LET parts == split(address, "/")
    IN  IF Len(parts) # 2 THEN Raise("ValueError")
        ELSE LET user == parts[1]
                 item == parts[2]
                 item_path == <<user, item>>
                 written == [Done EXCEPT
                               !.trace = <<Step("write_text", user)>>,
                               !.files = Put(files, item_path, content)]
                 pushed == stage_commit_push(written, user, {item_path},
                                             Message("Update", parts[2]), gf)
             IN  IF username # user THEN Raise("PermissionError")
                 ELSE IF pushed.result # "ok" THEN pushed
                 ELSE load_items(pushed, gf)

(***************************************************************************)
(* BaseRepo.fork_item                                                      *)
(***************************************************************************)
NoTarget == <<>>

\* fork_item that ignores target_user and always forks to the acting identity
fork_item_ignores_target(address, target, gf) ==
    LET parts == split(address, "/")
    IN  IF Len(parts) # 2 THEN [Done EXCEPT !.result = "InvalidAddress"]
        ELSE LET source_path == <<parts[1], parts[2]>>
                 target_address == Address(username, parts[2])
             IN  IF source_path \notin DOMAIN files
                 THEN Raise("FileNotFoundError")
                 ELSE LET w == write_item(target_address, files[source_path], gf)
                      IN  IF w.result = "ok"
                          THEN [w EXCEPT !.out = target_address]
                          ELSE w

fork_item(address, target, gf) ==
    LET parts == split(address, "/")
    IN  IF Len(parts) # 2 THEN [Done EXCEPT !.result = "InvalidAddress"]
        ELSE LET source_path == <<parts[1], parts[2]>>
                 target_user == IF target # NoTarget THEN target ELSE username
                 target_address == Address(target_user, parts[2])
             IN  IF source_path \notin DOMAIN files
                 THEN Raise("FileNotFoundError")
                 ELSE LET w == write_item(target_address, files[source_path], gf)
                      IN  IF w.result = "ok"
                          THEN [w EXCEPT !.out = target_address]
                          ELSE w

(***************************************************************************)
(* BaseRepo._check_shebang: the operator's answer is read only when the    *)
(* first line lacks "#!".                                                  *)
(***************************************************************************)
Answers == { "y", "Y", "n" }

\* input("> ").lower()
Lower(answer) == IF answer = "Y" THEN "y" ELSE answer

\* f.readline()
FirstLine(content) ==
    LET i == IndexFrom(content, NL, 1)
    IN  IF i = 0 THEN content ELSE SubSeq(content, 1, i)

_check_shebang(content, answer) ==
    IF kind # "script" THEN TRUE
    ELSE IF ~StartsWith(FirstLine(content), <<"#", "!">>)
         THEN Lower(answer) = "y"
         ELSE TRUE

\* edit_item that stages, commits and pushes whether or not the content changed
edit_item_always_commits(address, content_after, answer, gf) ==
    LET user == OwnerOf(address)
        item_path == <<user, ItemOf(address)>>
    IN  IF item_path \notin DOMAIN files THEN Raise("FileNotFoundError")
        ELSE LET edited == [Done EXCEPT
                              !.trace = <<Step("editor", user)>>,
                              !.files = Put(files, item_path, content_after)]
                 pushed == stage_commit_push(edited, user, {item_path},
                                             Message("Edit", ItemOf(address)), gf)
             IN  IF pushed.result # "ok" THEN pushed ELSE load_items(pushed, gf)

(***************************************************************************)
(* BaseRepo.edit_item: content_after is what the external editor leaves in *)
(* the file.                                                               *)
(***************************************************************************)
edit_item(address, content_after, answer, gf) ==
    LET user == OwnerOf(address)
        item_path == <<user, ItemOf(address)>>
    IN  IF item_path \notin DOMAIN files THEN Raise("FileNotFoundError")
        ELSE LET content_before == files[item_path]
                 edited == [Done EXCEPT
                              !.trace = <<Step("editor", user)>>,
                              !.files = Put(files, item_path, content_after)]
                 reverted == [edited EXCEPT
                                !.result = "aborted",
                                !.trace = @ \o <<Step("write_text", user)>>,
                                !.files = Put(files, item_path, content_before)]
                 pushed == stage_commit_push(edited, user, {item_path},
                                             Message("Edit", ItemOf(address)), gf)
             IN  IF content_before = content_after THEN edited
                 ELSE IF kind = "script" /\ ~_check_shebang(content_after, answer)
                 THEN reverted
                 ELSE IF pushed.result # "ok" THEN pushed
                 ELSE load_items(pushed, gf)

(***************************************************************************)
(* BaseRepo.delete_item                                                    *)
(***************************************************************************)
delete_item(address, gf) ==
    LET parts == split(address, "/")
    IN  IF Len(parts) # 2 THEN Raise("ValueError")
        ELSE LET user == parts[1]
                 item_path == <<user, parts[2]>>
                 unlinked == [Done EXCEPT
                                !.trace = <<Step("unlink", user)>>,
                                !.files = Del(files, item_path)]
                 pushed == stage_commit_push(unlinked, user, {item_path},
                                             Message("Delete", parts[2]), gf)
             IN  IF username # user THEN Raise("PermissionError")
                 ELSE IF item_path \notin DOMAIN files
                 THEN Raise("FileNotFoundError")
                 ELSE IF pushed.result # "ok" THEN pushed
                 ELSE load_items(pushed, gf)

(***************************************************************************)
(* BaseRepo.rename_item                                                    *)
(***************************************************************************)
\* a rename that copies: the source file stays
RenameFile_copy(f, source_path, dest_path) ==
    Put(f, dest_path, f[source_path])

\* source_path.rename(dest_path)
RenameFile(f, source_path, dest_path) ==
    Put(Del(f, source_path), dest_path, f[source_path])

\* rename_item without the check that the destination is free
rename_item_overwrite(source_address, destination_address, gf) ==
    LET source_user == username
        source_path == <<source_user, source_address>>
        dest_path == <<source_user, destination_address>>
        renamed == [Done EXCEPT
                      !.trace = <<Step("rename", source_user)>>,
                      !.files = RenameFile(files, source_path, dest_path)]
        pushed == stage_commit_push(renamed, source_user,
                                    {source_path, dest_path},
                                    Message("Rename",
                                            source_address \o <<" ", "to", " ">>
                                              \o destination_address), gf)
    IN  IF Contains(source_address, "/") \/ Contains(destination_address, "/")
        THEN Raise("ValueError")
        ELSE IF source_path \notin DOMAIN files THEN Raise("FileNotFoundError")
        ELSE IF pushed.result # "ok" THEN pushed
        ELSE load_items(pushed, gf)

rename_item(source_address, destination_address, gf) ==
    LET source_user == username
        source_path == <<source_user, source_address>>
        dest_path == <<source_user, destination_address>>
        renamed == [Done EXCEPT
                      !.trace = <<Step("rename", source_user)>>,
                      !.files = RenameFile(files, source_path, dest_path)]
        pushed == stage_commit_push(renamed, source_user,
                                    {source_path, dest_path},
                                    Message("Rename",
                                            source_address \o <<" ", "to", " ">>
                                              \o destination_address), gf)
    IN  IF Contains(source_address, "/") \/ Contains(destination_address, "/")
        THEN Raise("ValueError")
        ELSE IF source_path \notin DOMAIN files THEN Raise("FileNotFoundError")
        ELSE IF dest_path \in DOMAIN files THEN Raise("FileExistsError")
        ELSE IF pushed.result # "ok" THEN pushed
        ELSE load_items(pushed, gf)

(***************************************************************************)
(* BaseRepo.get_item_names.  list.sort() orders strings by code point.     *)
(***************************************************************************)
Code(ch) ==
    CASE ch = "!" -> 33 [] ch = "#" -> 35 [] ch = "-" -> 45 [] ch = "/" -> 47
      [] ch = "." -> 46 [] ch = "_" -> 95
      [] ch = "a" -> 97 [] ch = "b" -> 98 [] ch = "c" -> 99
      [] ch = "n" -> 110 [] ch = "o" -> 111 [] ch = "p" -> 112 [] ch = "t" -> 116 [] ch = "u" -> 117
      [] ch = "x" -> 120 [] ch = "y" -> 121 [] ch = "{" -> 123 [] ch = "}" -> 125
      [] OTHER -> 0

\* s < t as Python compares str
StrLess(s, t) ==
    \E i \in 1..(Len(t)) :
        /\ \A k \in 1..(i - 1) : k <= Len(s) /\ s[k] = t[k]
        /\ \/ i = Len(s) + 1
           \/ i <= Len(s) /\ Code(s[i]) < Code(t[i])

\* the list holding the strings of S, after list.sort()
RECURSIVE SortList(_)
SortList(S) ==
    IF S = {} THEN <<>>
    ELSE LET least == CHOOSE s \in S : \A t \in S : ~StrLess(t, s)
         IN  <<least>> \o SortList(S \ {least})

\* f"{branch_name}{file.name.removesuffix(self.file_suffix)}"
ItemLabel(branch, name) ==
    IF branch = username THEN name ELSE Address(branch, name)

\* get_item_names with one sort over all the labels
get_item_names_one_sort ==
    LET present == { p \in DOMAIN files : p[1] \in branches }
    IN  [Done EXCEPT !.worktrees = @ \cup branches,
                     !.out = SortList({ ItemLabel(p[1], p[2]) : p \in present })]

get_item_names ==
    LET present == { p \in DOMAIN files : p[1] \in branches }
        user_items == { ItemLabel(p[1], p[2]) : p \in { q \in present : q[1] = username } }
        other_items == { ItemLabel(p[1], p[2]) : p \in { q \in present : q[1] # username } }
    IN  [Done EXCEPT !.worktrees = @ \cup branches,
                     !.out = SortList(user_items) \o SortList(other_items)]

(***************************************************************************)
(* BaseRepo.search_items.  It calls _generate_map_of_item_names_to_content,*)
(* which rebinds cached_items to the fresh scan (the template manager      *)
(* keeps the mapping it was given).  The hits are printed in the order of  *)
(* the scan, which follows the directory listing: out is their set.        *)
(***************************************************************************)
\* query in line
Substring(query, line) ==
    \E i \in 1..(Len(line) - Len(query) + 1) :
        SubSeq(line, i, i + Len(query) - 1) = query

\* content.splitlines()
splitlines(content) ==
    LET parts == split(content, NL)
    IN  IF parts[Len(parts)] = <<>> THEN SubSeq(parts, 1, Len(parts) - 1)
        ELSE parts

Whitespace == { " ", NL }

\* line.strip()
RECURSIVE strip(_)
strip(line) ==
    IF line = <<>> THEN line
    ELSE IF Head(line) \in Whitespace THEN strip(Tail(line))
    ELSE IF line[Len(line)] \in Whitespace THEN strip(SubSeq(line, 1, Len(line) - 1))
    ELSE line

search_items(query, gf) ==
    LET items == ScanMap(branches, files)
        lines(name) == splitlines(items[name])
        found == { h \in UNION { { <<name, i>> : i \in 1..Len(lines(name)) } :
                                   name \in DOMAIN items } :
                       Substring(query, lines(h[1])[h[2]]) }
    IN  IF gf = "branch" THEN Raise("ExternalCommandFailure")
        ELSE [Done EXCEPT
                !.trace = <<Step("scan", <<>>)>>,
                !.worktrees = @ \cup branches,
                !.cached_items = items,
                !.out = { <<h[1], h[2], strip(lines(h[1])[h[2]])>> : h \in found }]

(***************************************************************************)
(* BaseRepo.copy_item / PromptRepo.copy_item: the content is served from   *)
(* the cache when the address is cached, from the file otherwise.  out is  *)
(* the text handed to the clipboard (or printed when the clipboard fails). *)
(***************************************************************************)
SuffixKey == <<"s", "u", "f", "f", "i", "x">>

\* hydrate_args.pop('suffix', '')
PopSuffix(hydrate_args) ==
    [suffix |-> IF HasKey(hydrate_args, SuffixKey)
                THEN Get(hydrate_args, SuffixKey) ELSE <<>>,
     rest |-> LET other(kv) == kv[1] # SuffixKey
              IN  SelectSeq(hydrate_args, other)]

copy_item(address, hydrate_args) ==
    LET user == OwnerOf(address)
        item == ItemOf(address)
        full_address == Address(user, item)
        popped == PopSuffix(hydrate_args)
        h == hydrate(cached_templates, full_address, popped.rest, popped.suffix)
    IN  IF full_address \notin DOMAIN cached_items /\ <<user, item>> \notin DOMAIN files
        THEN Raise("FileNotFoundError")
        ELSE LET content == IF full_address \in DOMAIN cached_items
                            THEN cached_items[full_address]
                            ELSE files[<<user, item>>]
             IN  IF kind = "prompt" /\ hydrate_args # <<>>
                 THEN [Done EXCEPT !.result = h.result,
                                   !.out = IF h.result = "ok" THEN h.text ELSE <<>>]
                 ELSE [Done EXCEPT !.out = content]

(***************************************************************************)
(* BaseRepo.create_new_file, called by the new command on the acting       *)
(* identity's working tree.  lines are the lines typed before EOF; the     *)
(* first answer is read only when the file exists, the second only when a  *)
(* script lacks its shebang.  A declined prompt is a plain return.         *)
(***************************************************************************)
\* "\n".join(content).strip() + "\n"
EnteredContent(lines) == strip(join(<<NL>>, lines)) \o <<NL>>

\* create_new_file that overwrites without asking
create_new_file_no_confirmation(filename, overwrite, lines, answer, gf) ==
    LET full_path == <<username, filename>>
        content == EnteredContent(lines)
        written == [Done EXCEPT
                      !.trace = <<Step("write_text", username)>>,
                      !.files = Put(files, full_path, content)]
    IN  IF kind = "script" /\ ~_check_shebang(content, answer)
        THEN [written EXCEPT !.result = "aborted",
                             !.trace = @ \o <<Step("unlink", username)>>,
                             !.files = Del(@, full_path)]
        ELSE load_items(written, gf)

create_new_file(filename, overwrite, lines, answer, gf) ==
    LET full_path == <<username, filename>>
        content == EnteredContent(lines)
        written == [Done EXCEPT
                      !.trace = <<Step("write_text", username)>>,
                      !.files = Put(files, full_path, content)]
        removed == [written EXCEPT
                      !.result = "aborted",
                      !.trace = @ \o <<Step("unlink", username)>>,
                      !.files = Del(@, full_path)]
    IN  IF full_path \in DOMAIN files /\ Lower(overwrite) # "y"
        THEN [Done EXCEPT !.result = "cancelled"]
        ELSE IF kind = "script" /\ ~_check_shebang(content, answer)
        THEN removed
        ELSE load_items(written, gf)

(***************************************************************************)
(* commands/delete_cmd.py delete_snippet: the delete command.  After an    *)
(* affirmative answer it calls repo.delete_snippet, a method that no repo  *)
(* class defines (BaseRepo has delete_item): the call raises               *)
(* AttributeError.                                                         *)
(***************************************************************************)
delete_snippet(address, confirmation) ==
    IF address = <<>> \/ Contains(address, "/") THEN Raise("ValueError")
    ELSE IF Lower(confirmation) = "y" THEN Raise("AttributeError")
    ELSE [Done EXCEPT !.result = "cancelled"]

(***************************************************************************)
(* BaseRepo.sync_all: one `git fetch --all`, then get_worktree(branch,     *)
(* sync=True) for each branch of _list_branches in the order of the        *)
(* listing.  failing is the branch whose `worktree add` or `pull` exits    *)
(* non-zero, if any: the exception leaves the loop.                        *)
(***************************************************************************)
NoBranch == <<>>

\* the branches of origin
RemoteBranches(o) == { p[1] : p \in DOMAIN o }

\* the local refs after `git fetch --all`: a branch new at origin becomes a
\* local branch at origin's commit
Fetched(h, o, known) ==
    [p \in (DOMAIN h) \cup { q \in DOMAIN o : q[1] \notin known } |->
        IF p \in DOMAIN h THEN h[p] ELSE o[p]]

\* the items of branch b in m replaced by those of branch b in n: the
\* working tree after `worktree add` (n the local branch) and the working
\* tree and local branch after a fast-forwarding `pull` (n origin)
Pulled(m, n, b) ==
    [p \in { q \in DOMAIN m : q[1] # b } \cup { q \in DOMAIN n : q[1] = b } |->
        IF p[1] = b THEN n[p] ELSE m[p]]

\* get_worktree(branch, sync=True) that adds the working tree on every call
get_worktree_sync_always_adds(r, branch) ==
    [r EXCEPT !.trace = @ \o <<Step("worktree_add", branch)>>,
              !.worktrees = @ \cup {branch},
              !.files = Pulled(@, r.head, branch)]

\* get_worktree(branch, sync=True)
get_worktree_sync(r, branch) ==
    IF branch \notin r.worktrees
    THEN [r EXCEPT !.trace = @ \o <<Step("worktree_add", branch)>>,
                   !.worktrees = @ \cup {branch},
                   !.files = Pulled(@, r.head, branch)]
    ELSE [r EXCEPT !.trace = @ \o <<Step("pull", branch)>>,
                   !.files = Pulled(@, r.origin, branch),
                   !.head = Pulled(@, r.origin, branch)]

\* for branch in self._list_branches(): self.get_worktree(branch, sync=True)
RECURSIVE SyncBranches(_, _, _)
SyncBranches(r, todo, failing) ==
    IF todo = <<>> THEN r
    ELSE IF Head(todo) = failing
    THEN [r EXCEPT !.result = "ExternalCommandFailure",
                   !.trace = @ \o <<Step(IF failing \in r.worktrees
                                         THEN "pull" ELSE "worktree_add",
                                         failing)>>]
    ELSE SyncBranches(get_worktree_sync(r, Head(todo)), Tail(todo), failing)

sync_all(failing) ==
    LET fetched == [Done EXCEPT
                      !.trace = <<Step("fetch", <<>>)>>,
                      !.branches = @ \cup RemoteBranches(origin),
                      !.head = Fetched(@, origin, branches)]
    IN  SyncBranches(fetched, SortList(fetched.branches), failing)

(***************************************************************************)
(* BaseRepo.__init__: _ensure_bare_repo clones only when the bare path has *)
(* no HEAD, and the scan that fills the cache calls get_worktree for each  *)
(* branch, which adds a working tree only where the directory is absent.   *)
(* The items of the repositories are left out of Construct.                *)
(***************************************************************************)
NoSlug == <<>>

\* get_worktree for each branch of todo, by the store of slug on the clone of source
RECURSIVE Materialized(_, _, _, _)
Materialized(d, slug, source, todo) ==
    IF todo = <<>> THEN d
    ELSE LET worktree_dir == get_worktree_dir(slug, Head(todo))
         IN  Materialized(
                IF worktree_dir \in DOMAIN d THEN d
                ELSE Put(d, worktree_dir, WorkingTree(source, Head(todo))),
                slug, source, Tail(todo))

\* _ensure_bare_repo: bs are the branches of the repository when it is cloned
_ensure_bare_repo(d, slug, bs) ==
    IF bare_repo_path(slug) \in DOMAIN d THEN d
    ELSE Put(d, bare_repo_path(slug), BareClone(slug, bs))

(***************************************************************************)
(* The operations as actions.  last records the operation, its inputs,     *)
(* the steps it performed and its outcome.                                 *)
(***************************************************************************)
Apply(op, a, b, r) ==
    /\ last' = [op |-> op, arg |-> a, arg2 |-> b, result |-> r.result,
                trace |-> r.trace, out |-> r.out]
    /\ branches' = r.branches
    /\ worktrees' = r.worktrees
    /\ files' = r.files
    /\ head' = r.head
    /\ origin' = r.origin
    /\ cached_items' = r.cached_items
    /\ cached_templates' = r.cached_templates
    /\ disk' = Materialized(disk, repo_slug, disk[bare_repo_path(repo_slug)].slug,
                            SortList(r.worktrees))
    /\ UNCHANGED <<username, kind, repo_slug>>

Read ==
    \E address \in Addresses :
        Apply("read", address, <<>>, read_item(address))

Write(GF) ==
    \E address \in Addresses, content \in Contents, gf \in GF :
        Apply("write", address, content, write_item(address, content, gf))

Fork(GF) ==
    \E address \in Addresses, target \in Users \cup {NoTarget}, gf \in GF :
        Apply("fork", address, target, fork_item(address, target, gf))

Edit(GF) ==
    \E address \in Addresses, content_after \in Contents, answer \in Answers,
       gf \in GF :
        Apply("edit", address, content_after,
              edit_item(address, content_after, answer, gf))

Delete(GF) ==
    \E address \in Addresses, gf \in GF :
        Apply("delete", address, <<>>, delete_item(address, gf))

Rename(GF) ==
    \E source \in Addresses, destination \in Addresses, gf \in GF :
        Apply("rename", source, destination, rename_item(source, destination, gf))

ListNames ==
    Apply("list", <<>>, <<>>, get_item_names)

Queries == { <<"a">>, <<"#", "!">>, <<"y">> }

Search(GF) ==
    \E query \in Queries, gf \in GF :
        Apply("search", query, <<>>, search_items(query, gf))

Copy ==
    \E address \in Addresses :
        Apply("copy", address, <<>>, copy_item(address, <<>>))

\* the lines an operator types into the new command
EnteredLines == { <<WithShebang>>, <<NoShebang>> }

CreateNew(GF) ==
    \E filename \in Names, overwrite \in Answers, lines \in EnteredLines,
       answer \in Answers, gf \in GF :
        Apply("create_new", filename, <<overwrite, lines>>,
              create_new_file(filename, overwrite, lines, answer, gf))

DeleteCommand ==
    \E address \in Addresses, confirmation \in Answers :
        Apply("delete_command", address, confirmation,
              delete_snippet(address, confirmation))

SyncUsers == Users \cup { <<"c">> }

SyncAll ==
    \E failing \in SyncUsers \cup {NoBranch} :
        Apply("sync", failing, <<>>, sync_all(failing))

\* another collaborator pushes an item to their own branch of origin
RemotePush ==
    \E b \in SyncUsers \ {username}, n \in Names, c \in Contents :
        Apply("remote_push", b, n, [Done EXCEPT !.origin = Put(@, <<b, n>>, c)])

(***************************************************************************)
(* BaseRepo.__init__: the state after construction is the scan of a fresh  *)
(* clone, in which working trees, local branches and origin agree.         *)
(***************************************************************************)
StoreSlug == <<"o", "/", "n">>

Constructed(f) ==
    /\ repo_slug = StoreSlug
    /\ disk = Materialized(_ensure_bare_repo(EmptyMap, StoreSlug, branches),
                           StoreSlug, StoreSlug, SortList(branches))
    /\ worktrees = branches
    /\ files = f
    /\ head = f
    /\ origin = f
    /\ cached_items = ScanMap(branches, f)
    /\ cached_templates = IF kind = "prompt" THEN ScanMap(branches, f) ELSE EmptyMap
    /\ last = [op |-> "init", arg |-> <<>>, arg2 |-> <<>>, result |-> "ok",
               trace |-> <<>>, out |-> <<>>]

\* every other user's branch holds one item
InitFiles(me) ==
    [p \in { <<u, <<"x">>>> : u \in Users \ {me} } |-> WithShebang]

Init ==
    /\ username \in Users
    /\ kind \in Kinds
    /\ branches = Users
    /\ Constructed(InitFiles(username))

\* the operations of a session in which every version-control command succeeds
Next ==
    \/ Read
    \/ Write(NoFailure)
    \/ Fork(NoFailure)
    \/ Edit(NoFailure)
    \/ Delete(NoFailure)
    \/ Rename(NoFailure)
    \/ ListNames

Spec == Init /\ [][Next]_vars

(***************************************************************************)
(* The specification of the cache: the operations that read it, with write *)
(* and delete to rebuild it, in sessions where the listing of the branches *)
(* that opens a rescan may fail.  The users being interchangeable, the     *)
(* acting identity is fixed.                                               *)
(***************************************************************************)
\* every command exits 0, or `git branch -a` fails
ScanFailure == { "none", "branch" }

SessionUser == <<"a">>

InitSession ==
    /\ username = SessionUser
    /\ kind \in Kinds
    /\ branches = Users
    /\ Constructed(InitFiles(username))

NextCache ==
    \/ Read
    \/ Copy
    \/ ListNames
    \/ Search(ScanFailure)
    \/ Write(ScanFailure)
    \/ Delete(ScanFailure)

SpecCache == InitSession /\ [][NextCache]_vars

(***************************************************************************)
(* The specification of the interactive prompts: the new command and the   *)
(* delete command, with delete_item to remove and commit between them.     *)
(***************************************************************************)
NextConfirm ==
    \/ CreateNew(NoFailure)
    \/ DeleteCommand
    \/ Delete(NoFailure)

SpecConfirm == InitSession /\ [][NextConfirm]_vars

(***************************************************************************)
(* The specification of synchronisation: collaborators push to their       *)
(* branches of origin, and the acting identity runs sync_all.              *)
(***************************************************************************)
NextSync ==
    \/ RemotePush
    \/ SyncAll

SpecSync == InitSession /\ [][NextSync]_vars

(***************************************************************************)
(* The specification of the paths: stores are constructed for several      *)
(* repositories under one base directory, which starts empty.              *)
(***************************************************************************)
Slugs == { <<"o", "/", "n">>, <<"o", "/", "n", "_", "b">>, <<"p", "/", "n">> }

\* the branches a repository may have when it is cloned
RepoBranchSets ==
    { { <<"c">> }, { <<"b", "_", "c">> },
      { <<"c">>, <<"b", "_", "c">>, <<"a", "/", "c">> } }

Construct ==
    \E slug \in Slugs, bs \in RepoBranchSets :
        LET cloned == _ensure_bare_repo(disk, slug, bs)
            clone == cloned[bare_repo_path(slug)]
        IN  /\ repo_slug' = slug
            /\ disk' = Materialized(cloned, slug, clone.slug, SortList(clone.refs))
            /\ branches' = clone.refs
            /\ worktrees' = clone.refs
            /\ last' = [op |-> "construct", arg |-> slug, arg2 |-> bs,
                        result |-> "ok",
                        trace |-> IF bare_repo_path(slug) \in DOMAIN disk THEN <<>>
                                  ELSE <<Step("clone", <<>>)>>,
                        out |-> <<>>]
            /\ UNCHANGED <<username, kind, files, head, origin, cached_items,
                           cached_templates>>

InitPaths ==
    /\ username = SessionUser
    /\ kind = "snippet"
    /\ branches = {}
    /\ worktrees = {}
    /\ files = EmptyMap
    /\ head = EmptyMap
    /\ origin = EmptyMap
    /\ cached_items = EmptyMap
    /\ cached_templates = EmptyMap
    /\ repo_slug = NoSlug
    /\ disk = EmptyMap
    /\ last = [op |-> "init", arg |-> <<>>, arg2 |-> <<>>, result |-> "ok",
               trace |-> <<>>, out |-> <<>>]

NextPaths == Construct

SpecPaths == InitPaths /\ [][NextPaths]_vars

(***************************************************************************)
(* PromptRepo.hydrate, and the specification of the hydration engine: one  *)
(* prompt store whose single template is any string of at most MaxLen      *)
(* characters, hydrated with every argument mapping and suffix.            *)
(***************************************************************************)
PromptRepo_hydrate(template_name, args, suffix) ==
    LET h == hydrate(cached_templates, template_name, args, suffix)
    IN  [Done EXCEPT
           !.result = h.result,
           !.out = CASE h.result = "ok" -> h.text
                     [] h.result = "MissingArguments" ->
                          [missing |-> h.missing, required |-> h.required,
                           provided |-> h.provided]
                     [] OTHER -> <<>>]

TemplateChars == { "{", "}", "a", "b" }
Templates == UNION { [1..n -> TemplateChars] : n \in 0..MaxLen }

ArgKeys == { <<"a">>, <<"b">> }
ArgValues == { <<"Z">>, <<"{", "b", "}">> }
ArgMaps ==
    {<<>>}
      \cup { <<<<k, v>>>> : k \in ArgKeys, v \in ArgValues }
      \cup { q \in (ArgKeys \X ArgValues) \X (ArgKeys \X ArgValues) :
                 q[1][1] # q[2][1] }
Suffixes == { <<>>, <<"s">> }

HydrateUser == <<"a">>
TemplateItem == <<"t">>
TemplateNames == { Address(HydrateUser, TemplateItem), Address(HydrateUser, <<"u">>) }

Hydrate ==
    /\ kind = "prompt"
    /\ \E name \in TemplateNames, args \in ArgMaps, suffix \in Suffixes :
          Apply("hydrate", name, <<args, suffix>>,
                PromptRepo_hydrate(name, args, suffix))

InitHydrate ==
    /\ username = HydrateUser
    /\ kind = "prompt"
    /\ branches = {HydrateUser}
    /\ \E t \in Templates :
          Constructed([p \in { <<HydrateUser, TemplateItem>> } |-> t])

\* hydrate changes nothing but what it returns, so hydrating again from the
\* state it leaves reaches no new state: each template is hydrated once
NextHydrate == last.op = "init" /\ Hydrate

SpecHydrate == InitHydrate /\ [][NextHydrate]_vars

(***************************************************************************)
(* Properties of the hydration engine (checked under SpecHydrate).         *)
(***************************************************************************)
\* the hydrate call just made, on a cached template
Hydrated == last.op = "hydrate" /\ last.arg \in DOMAIN cached_templates
HydratedTemplate == cached_templates[last.arg]
HydratedArgs == last.arg2[1]
HydratedSuffix == last.arg2[2]
\* the placeholder names occurring in the template, and the keys supplied
PlaceholderNames == Range(findall(HydratedTemplate))
SuppliedKeys == Range(Keys(HydratedArgs))

NoDuplicates(q) == \A i, j \in 1..Len(q) : q[i] = q[j] => i = j

\* The template read in one pass from left to right: each placeholder
\* occurrence gives its argument's value, every other character itself, and
\* no text that a value brought in is read again.
RECURSIVE SinglePass(_, _)
SinglePass(t, args) ==
    IF MatchStarts(t) = {} THEN t
    ELSE LET i == Min(MatchStarts(t))
             j == MatchEnd(t, i)
         IN  SubSeq(t, 1, i - 1) \o Get(args, SubSeq(t, i + 1, j - 1))
               \o SinglePass(SubSeq(t, j + 1, Len(t)), args)

\* one clause ", <key> is <value>" per argument key that is no placeholder,
\* in the order of the mapping
RECURSIVE ExtraClauses(_, _)
ExtraClauses(args, names) ==
    IF args = <<>> THEN <<>>
    ELSE (IF Head(args)[1] \in names THEN <<>>
          ELSE <<",", " ">> \o Head(args)[1] \o <<" ", "i", "s", " ">> \o Head(args)[2])
           \o ExtraClauses(Tail(args), names)

SuffixClause(suffix) == IF suffix = <<>> THEN <<>> ELSE <<",", " ">> \o suffix

\* C3: hydrate(t, args, "") succeeds iff every placeholder name of t is a key
\* of args; when it fails, the error names each missing placeholder name
\* exactly once and no supplied name, with the full required set and the
\* supplied keys.
C3_HydrationTotality ==
    (Hydrated /\ HydratedSuffix = <<>>) =>
        /\ last.result = "ok" <=> PlaceholderNames \subseteq SuppliedKeys
        /\ last.result # "ok" =>
              /\ last.result = "MissingArguments"
              /\ Range(last.out.missing) = PlaceholderNames \ SuppliedKeys
              /\ NoDuplicates(last.out.missing)
              /\ Range(last.out.required) = PlaceholderNames
              /\ Range(last.out.provided) = SuppliedKeys

\* C4: hydration is a single pass with no re-substitution: for a template
\* with two or more distinct placeholders, text introduced by substituting
\* one placeholder is never itself expanded.
C4_NoResubstitution ==
    (Hydrated /\ last.result = "ok" /\ Cardinality(PlaceholderNames) >= 2) =>
        last.out = SinglePass(HydratedTemplate, HydratedArgs)
                     \o ExtraClauses(HydratedArgs, PlaceholderNames)
                     \o SuffixClause(HydratedSuffix)

\* C5: when hydrate succeeds with no extra argument and an empty suffix, the
\* output is the template body with every occurrence of each placeholder
\* replaced by its argument's value and nothing else changed.
C5_SubstitutedBody ==
    (/\ Hydrated
     /\ last.result = "ok"
     /\ SuppliedKeys \subseteq PlaceholderNames
     /\ HydratedSuffix = <<>>) =>
        last.out = SinglePass(HydratedTemplate, HydratedArgs)

\* C6: the hydrated output is the substituted body, then one clause
\* ", <key> is <value>" for each argument key that is not a placeholder, in
\* the insertion order of args, then ", <suffix>" iff the suffix is non-empty.
C6_OutputOrdering ==
    (Hydrated /\ last.result = "ok") =>
        last.out = substitute(HydratedTemplate, findall(HydratedTemplate), HydratedArgs)
                     \o ExtraClauses(HydratedArgs, PlaceholderNames)
                     \o SuffixClause(HydratedSuffix)

\* C6 witness: a hydration with two extra arguments and a suffix succeeded
C6_Witness ==
    /\ Hydrated
    /\ last.result = "ok"
    /\ Len(HydratedArgs) = 2
    /\ PlaceholderNames = {}
    /\ HydratedSuffix # <<>>

(***************************************************************************)
(* The specification of the listing: any mixture of item files over three  *)
(* branches, listed by any of the three identities.                        *)
(***************************************************************************)
ListUsers == { <<"a">>, <<"b">>, <<"b", "-">> }

InitList ==
    /\ username \in ListUsers
    /\ kind \in Kinds
    /\ branches = ListUsers
    /\ \E present \in SUBSET (ListUsers \X Names) :
          Constructed([p \in present |-> WithShebang])

NextList == ListNames

SpecList == InitList /\ [][NextList]_vars

(***************************************************************************)
(* Properties of the store (checked under Spec, the listing under          *)
(* SpecList).                                                              *)
(***************************************************************************)
StoreState == <<worktrees, files, head, origin, cached_items, cached_templates>>

\* an address of the form owner/name
Qualified(address) == Len(split(address, "/")) = 2

\* C1: for every content kind and every address other/x with other different
\* from the acting identity, write(other/x, content) fails with a permission
\* error before any file is created or changed, before any git add, commit
\* or push is issued, and without touching the cache.
C1_WriteAuthorization ==
    [][(/\ last'.op = "write"
        /\ Qualified(last'.arg)
        /\ OwnerOf(last'.arg) # username)
          => /\ last'.result = "PermissionError"
             /\ last'.trace = <<>>
             /\ UNCHANGED StoreState]_vars

\* C1 witness: a write to another user's address was refused
C1_Witness ==
    /\ last.op = "write"
    /\ Qualified(last.arg)
    /\ OwnerOf(last.arg) # username
    /\ last.result = "PermissionError"

\* C2: write, edit, delete and rename never write, remove or rename a file
\* in, nor stage, commit or push to, a branch whose name differs from the
\* acting identity.
C2_OwnerOnlyMutation ==
    last.op \in { "write", "edit", "delete", "rename" } =>
        \A i \in 1..Len(last.trace) :
            last.trace[i].step \in { "write_text", "unlink", "rename",
                                     "add", "commit", "push" }
              => last.trace[i].branch = username

\* C7 as stated: rename(a, b) with b existing in the acting identity's branch
\* (including a = b) fails with already-exists, rename(a, b) with a missing
\* fails with not-found, and either way nothing changes.
C7_RenameFailures ==
    [][(/\ last'.op = "rename"
        /\ ~Contains(last'.arg, "/")
        /\ ~Contains(last'.arg2, "/"))
          => /\ <<username, last'.arg2>> \in DOMAIN files
                  => last'.result = "FileExistsError" /\ UNCHANGED StoreState
             /\ <<username, last'.arg>> \notin DOMAIN files
                  => last'.result = "FileNotFoundError" /\ UNCHANGED StoreState]_vars

\* C7 amended: rename(a, b) with a missing fails with not-found, whether or
\* not b exists; rename(a, b) with a existing and b existing (including
\* a = b) fails with already-exists; either way files, git history and cache
\* are unchanged.
C7_RenameFailuresAmended ==
    [][(/\ last'.op = "rename"
        /\ ~Contains(last'.arg, "/")
        /\ ~Contains(last'.arg2, "/"))
          => /\ (/\ <<username, last'.arg>> \in DOMAIN files
                 /\ <<username, last'.arg2>> \in DOMAIN files)
                  => last'.result = "FileExistsError" /\ UNCHANGED StoreState
             /\ <<username, last'.arg>> \notin DOMAIN files
                  => last'.result = "FileNotFoundError" /\ UNCHANGED StoreState]_vars

\* C7 witness: a rename onto an existing name other than the source was refused
C7_Witness ==
    /\ last.op = "rename"
    /\ last.result = "FileExistsError"
    /\ last.arg # last.arg2
    /\ <<username, last.arg>> \in DOMAIN files
    /\ <<username, last.arg2>> \in DOMAIN files

\* C8: after a successful rename(a, b), read(b) returns exactly the content
\* read(a) returned before the call, read(a) fails with not-found, the cache
\* contains self/b with that content and no longer contains self/a, and every
\* other item is unchanged.
C8_RenameMovesContent ==
    [][(last'.op = "rename" /\ last'.result = "ok")
          => LET a == last'.arg
                 b == last'.arg2
             IN  /\ ReadFile(files, a).result = "ok"
                 /\ ReadFile(files', b).result = "ok"
                 /\ ReadFile(files', b).out = ReadFile(files, a).out
                 /\ ReadFile(files', a).result = "FileNotFoundError"
                 /\ Lookup(cached_items', Address(username, b)) = ReadFile(files, a).out
                 /\ Address(username, a) \notin DOMAIN cached_items'
                 /\ \A p \in ((DOMAIN files) \cup (DOMAIN files'))
                                \ { <<username, a>>, <<username, b>> } :
                        Lookup(files', p) = Lookup(files, p)]_vars

\* C8 witness: a rename succeeded while another user's item existed
C8_Witness ==
    /\ last.op = "rename"
    /\ last.result = "ok"
    /\ \E p \in DOMAIN files : p[1] # username

\* the owner a fork writes to
ForkTarget(target) == IF target # NoTarget THEN target ELSE username

\* C9 as stated: for every existing item alice/x and every target owner bob,
\* after fork(alice/x, target=bob) read(bob/x) returns exactly the content
\* read(alice/x) returned before the fork, and alice/x is unchanged.
C9_ForkRoundTrip ==
    [][(/\ last'.op = "fork"
        /\ Qualified(last'.arg)
        /\ ReadFile(files, last'.arg).result = "ok")
          => LET forked == Address(ForkTarget(last'.arg2), ItemOf(last'.arg))
             IN  /\ ReadFile(files', forked).result = "ok"
                 /\ ReadFile(files', forked).out = ReadFile(files, last'.arg).out
                 /\ ReadFile(files', last'.arg) = ReadFile(files, last'.arg)]_vars

\* C9 amended: for every existing item alice/x, fork(alice/x) with the target
\* owner equal to the acting identity (the default) is followed by a
\* read(self/x) that returns exactly the content read(alice/x) returned
\* before the fork, and alice/x is unchanged; with any other target owner
\* the fork fails with a permission error and changes nothing.
C9_ForkRoundTripAmended ==
    [][(/\ last'.op = "fork"
        /\ Qualified(last'.arg)
        /\ ReadFile(files, last'.arg).result = "ok")
          => LET forked == Address(ForkTarget(last'.arg2), ItemOf(last'.arg))
             IN  IF ForkTarget(last'.arg2) = username
                 THEN /\ ReadFile(files', forked).result = "ok"
                      /\ ReadFile(files', forked).out = ReadFile(files, last'.arg).out
                      /\ ReadFile(files', last'.arg) = ReadFile(files, last'.arg)
                 ELSE /\ last'.result = "PermissionError"
                      /\ UNCHANGED StoreState]_vars

\* C9 witness: another user's item was forked into the acting identity's branch
C9_Witness ==
    /\ last.op = "fork"
    /\ last.result = "ok"
    /\ OwnerOf(last.arg) # username
    /\ last.out = Address(username, ItemOf(last.arg))

\* the labels list_names must show: bare names of the acting identity's
\* items, owner/name for the others
OwnLabels == { p[2] : p \in { q \in DOMAIN files : q[1] = username } }
OtherLabels == { Address(p[1], p[2]) : p \in { q \in DOMAIN files : q[1] # username } }
Ascending(q, from, to) ==
    \A i, j \in from..to : i < j => StrLess(q[i], q[j])

\* C10: list_names returns every item exactly once, all items of the acting
\* identity's branch first in ascending lexicographic order, then all items
\* of other branches in ascending lexicographic order.
C10_ListingPartition ==
    last.op = "list" =>
        LET n == Cardinality(OwnLabels)
        IN  /\ Len(last.out) = n + Cardinality(OtherLabels)
            /\ { last.out[i] : i \in 1..n } = OwnLabels
            /\ { last.out[i] : i \in (n + 1)..Len(last.out) } = OtherLabels
            /\ Ascending(last.out, 1, n)
            /\ Ascending(last.out, n + 1, Len(last.out))

\* C10 witness: a listing of two own items and the items of two other branches
C10_Witness ==
    /\ last.op = "list"
    /\ Cardinality(OwnLabels) = 2
    /\ Cardinality({ p[1] : p \in { q \in DOMAIN files : q[1] # username } }) = 2
    /\ Cardinality(OtherLabels) >= 3

(***************************************************************************)
(* Properties of the item cache.                                           *)
(***************************************************************************)
\* the addresses owner/name of the item files in the working trees f
FileAddresses(f) == { Address(p[1], p[2]) : p \in DOMAIN f }

\* the operation just performed changed an item: a write, delete, rename or
\* fork, or an edit after which the editor left a different content
Mutating(before, op) ==
    \/ op.op \in { "write", "delete", "rename", "fork" }
    \/ op.op = "edit" /\ ReadFile(before, op.arg).out # op.arg2

\* C11: after every successful mutating operation (write, edit with changed
\* content, delete, rename, fork) the item cache maps exactly the addresses
\* owner/name of the files that exist to their current content, with no
\* entry left from before the mutation.
C11_CacheEqualsScan ==
    [][(Mutating(files, last') /\ last'.result = "ok")
          => /\ DOMAIN cached_items' = FileAddresses(files')
             /\ \A p \in DOMAIN files' :
                    cached_items'[Address(p[1], p[2])] = files'[p]]_vars

\* C11 witness: a delete succeeded and left other items in the cache
C11_Witness ==
    /\ last.op = "delete"
    /\ last.result = "ok"
    /\ Address(OwnerOf(last.arg), ItemOf(last.arg)) \notin DOMAIN cached_items
    /\ Cardinality(DOMAIN cached_items) >= 2

\* C12: the read-type operations (read, copy, list_names, search, hydrate)
\* never rebuild or replace the item cache: the cache after such an
\* operation is the same mapping as before it, whatever the state of the
\* working trees.
C12_ReadsKeepCache ==
    [][last'.op \in { "read", "copy", "list", "search", "hydrate" }
          => cached_items' = cached_items]_vars

\* C13: a cache rebuild replaces the mapping atomically for every content
\* kind: after any step the cache is either the complete old mapping or the
\* complete new mapping (the scan of the working trees), and a rescan that
\* fails leaves the old mapping, never an empty or partial one.
C13_AtomicRebuild ==
    [][/\ cached_items' \in { cached_items, ScanMap(branches', files') }
       /\ (last'.result = "ExternalCommandFailure"
              /\ last'.trace # <<>>
              /\ last'.trace[Len(last'.trace)].step = "load_items")
            => cached_items' = cached_items]_vars

(***************************************************************************)
(* Properties of synchronisation (checked under SpecSync).                 *)
(***************************************************************************)
\* the branches whose working tree the last operation tried to add or pull
Attempted ==
    { last.trace[i].branch :
        i \in { j \in 1..Len(last.trace) :
                  last.trace[j].step \in { "worktree_add", "pull" } } }

\* C14: sync_all issues one fetch of all remote refs and then attempts the
\* working tree of every known branch; a failure while syncing one branch
\* does not stop the sweep, so the set of branches attempted always equals
\* the full branch list.
C14_SyncBestEffort ==
    last.op = "sync" =>
        /\ Cardinality({ i \in 1..Len(last.trace) : last.trace[i].step = "fetch" }) = 1
        /\ last.trace[1].step = "fetch"
        /\ Attempted = branches

(***************************************************************************)
(* Properties of addressing, of the interactive prompts and of edit.       *)
(***************************************************************************)
\* what an operation leaves behind, for comparing two outcomes
Effect(r) ==
    <<r.result, r.files, r.head, r.origin, r.cached_items, r.cached_templates>>

\* C15: address resolution is uniform over the operations that take an
\* address: a bare name resolves to the acting identity's item, so
\* write(name, c) and delete(name) act exactly as write(self/name, c) and
\* delete(self/name) do, and the delete command accepts self/name.
C15_UniformAddressing ==
    [][/\ (last'.op = "write" /\ ~Contains(last'.arg, "/"))
            => Effect(write_item(Address(username, last'.arg), last'.arg2, "none"))
                 = <<last'.result, files', head', origin', cached_items',
                     cached_templates'>>
       /\ (last'.op = "delete" /\ ~Contains(last'.arg, "/"))
            => Effect(delete_item(Address(username, last'.arg), "none"))
                 = <<last'.result, files', head', origin', cached_items',
                     cached_templates'>>
       /\ (last'.op = "delete_command" /\ Qualified(last'.arg)
              /\ OwnerOf(last'.arg) = username)
            => last'.result # "ValueError"]_vars

\* the operator answered y or Y
Affirmative(answer) == Lower(answer) = "y"

\* C16: the delete command removes the file only after an affirmative
\* answer, and create_new overwrites an existing file only after an
\* affirmative answer; for any other answer the operation is a no-op that
\* leaves files, git history and cache unchanged and raises no error.
C16_ConfirmationGate ==
    [][/\ (last'.op = "delete_command" /\ ~Contains(last'.arg, "/"))
            => /\ files' # files => Affirmative(last'.arg2)
               /\ ~Affirmative(last'.arg2)
                    => last'.result = "cancelled" /\ UNCHANGED StoreState
       /\ (last'.op = "create_new" /\ <<username, last'.arg>> \in DOMAIN files)
            => /\ files' # files => Affirmative(last'.arg2[1])
               /\ ~Affirmative(last'.arg2[1])
                    => last'.result = "cancelled" /\ UNCHANGED StoreState]_vars

\* C16 witness: create_new on an existing file was declined
C16_Witness ==
    /\ last.op = "create_new"
    /\ last.result = "cancelled"
    /\ ~Affirmative(last.arg2[1])
    /\ <<username, last.arg>> \in DOMAIN files

\* C17: when the operator declines the missing-shebang prompt during edit or
\* create_new, the file ends in exactly the state it had before the
\* operation began (its previous content if it existed, absent if it was
\* newly created), and nothing is committed or pushed.
C17_ShebangRejection ==
    [][(last'.op \in { "edit", "create_new" } /\ last'.result = "aborted")
          => files' = files /\ head' = head /\ origin' = origin]_vars

\* C18: edit on a missing item fails with not-found without opening the
\* editor; edit that leaves the content as it was is a no-op (no add,
\* commit or push, no cache rebuild); edit that changed the content and
\* passes the kind policy stages, commits and pushes to origin/<owner> and
\* then rebuilds the cache.
C18_EditBehaviour ==
    [][last'.op = "edit"
          => LET owner == OwnerOf(last'.arg)
                 path == <<owner, ItemOf(last'.arg)>>
             IN  IF path \notin DOMAIN files
                 THEN /\ last'.result = "FileNotFoundError"
                      /\ last'.trace = <<>>
                      /\ UNCHANGED StoreState
                 ELSE IF files[path] = last'.arg2
                 THEN /\ last'.result = "ok"
                      /\ last'.trace = <<Step("editor", owner)>>
                      /\ UNCHANGED StoreState
                 ELSE /\ last'.result \in { "ok", "aborted" }
                      /\ last'.result = "aborted"
                           => /\ kind = "script"
                              /\ ~StartsWith(FirstLine(last'.arg2), <<"#", "!">>)
                      /\ last'.result = "ok"
                        => /\ last'.trace = <<Step("editor", owner), Step("add", owner),
                                              Commit(owner, Message("Edit", ItemOf(last'.arg))),
                                              Step("push", owner),
                                              Step("load_items", <<>>)>>
                           /\ Lookup(head', path) = last'.arg2
                           /\ Lookup(origin', path) = last'.arg2
                           /\ cached_items' = ScanMap(branches, files')]_vars

\* C18 witness: an edit that changed the content was committed and pushed
C18_Witness ==
    /\ last.op = "edit"
    /\ last.result = "ok"
    /\ Len(last.trace) = 5
    /\ Lookup(origin, <<OwnerOf(last.arg), ItemOf(last.arg)>>) = last.arg2

(***************************************************************************)
(* Properties of the paths (checked under SpecPaths).                      *)
(***************************************************************************)
BranchChars == { "a", "_", "/" }

\* the branch names of at most MaxBranchLen characters that git accepts:
\* no empty component
BranchNames ==
    { b \in UNION { [1..n -> BranchChars] : n \in 1..MaxBranchLen } :
        \A i \in 1..Len(split(b, "/")) : split(b, "/")[i] # <<>> }

\* C19: within one repository and base directory, the working-tree path is
\* an injective function of the branch name: two different branch names
\* never yield the same path, and each branch of the store has a working
\* tree at its path.
C19_WorktreePathInjective ==
    repo_slug # NoSlug =>
        /\ \A b1, b2 \in BranchNames :
              b1 # b2 => get_worktree_dir(repo_slug, b1) # get_worktree_dir(repo_slug, b2)
        /\ \A b1, b2 \in branches :
              b1 # b2 => get_worktree_dir(repo_slug, b1) # get_worktree_dir(repo_slug, b2)
        /\ \A b \in branches :
              /\ get_worktree_dir(repo_slug, b) \in DOMAIN disk
              /\ disk[get_worktree_dir(repo_slug, b)].kind = "worktree"

\* C19 witness: a store was constructed for a repository with three branches
C19_Witness ==
    /\ last.op = "construct"
    /\ repo_slug # NoSlug
    /\ Cardinality(branches) = 3
    /\ \A b \in branches : get_worktree_dir(repo_slug, b) \in DOMAIN disk

\* C20: two different slugs used with the same base directory never share a
\* bare-clone path nor a working-tree path for any of their branches; the
\* clone is made on first construction only, and constructing a store for a
\* slug whose clone exists never re-clones it.
C20_OneClonePerSlug ==
    [][last'.op = "construct"
          => /\ disk'[bare_repo_path(repo_slug')] = BareClone(repo_slug', branches')
             /\ \A b \in branches' :
                   disk'[get_worktree_dir(repo_slug', b)] = WorkingTree(repo_slug', b)
             /\ last'.trace = <<Step("clone", <<>>)>>
                   <=> bare_repo_path(repo_slug') \notin DOMAIN disk
             /\ \A p \in DOMAIN disk : disk'[p] = disk[p]]_vars

(***************************************************************************)
(* Properties of freshness after sync_all (checked under SpecSync).        *)
(***************************************************************************)
\* C21: after sync_all completes successfully, a cache-served lookup (copy,
\* hydrate) of any address returns the content now present in the branch's
\* fast-forwarded working tree: staleness introduced by a remote-side
\* change ends at the next sync_all.
C21_SyncRestoresFreshness ==
    (last.op = "sync" /\ last.result = "ok") =>
        \A p \in DOMAIN files :
            LET address == Address(p[1], p[2])
            IN  /\ copy_item(address, <<>>).result = "ok"
                /\ copy_item(address, <<>>).out = files[p]
                /\ kind = "prompt" =>
                      hydrate(cached_templates, address, <<>>, <<>>)
                        = hydrate(ScanMap(branches, files), address, <<>>, <<>>)

(***************************************************************************)
(* Properties of delete and write.                                         *)
(***************************************************************************)
\* the steps of a trace, in order
Steps(trace) == [i \in 1..Len(trace) |-> trace[i].step]

\* the entries of m other than k
Others(m, k) == [q \in (DOMAIN m) \ {k} |-> m[q]]

\* C22: delete(self/x): if the file does not exist it fails with not-found
\* and changes nothing; otherwise it removes the file, then stages, commits
\* and pushes to origin/self, then rebuilds the cache, after which
\* read(self/x) fails with not-found, the cache has no entry self/x, and
\* every other item and cache entry is unchanged.
C22_DeleteOwnItem ==
    [][(last'.op = "delete" /\ Qualified(last'.arg)
          /\ OwnerOf(last'.arg) = username)
        => LET address == last'.arg
               item_path == <<username, ItemOf(address)>>
           IN  IF item_path \notin DOMAIN files
               THEN /\ last'.result = "FileNotFoundError"
                    /\ StoreState' = StoreState
               ELSE /\ last'.result = "ok"
                    /\ Steps(last'.trace)
                         = <<"unlink", "add", "commit", "push", "load_items">>
                    /\ \A i \in 1..4 : last'.trace[i].branch = username
                    /\ ReadFile(files', address).result = "FileNotFoundError"
                    /\ item_path \notin DOMAIN head'
                    /\ item_path \notin DOMAIN origin'
                    /\ address \notin DOMAIN cached_items'
                    /\ files' = Others(files, item_path)
                    /\ cached_items' = Others(cached_items, address)]_vars

\* C23: a successful write(self/x, c) performs its steps in the order: file
\* created or overwritten with c, git add of that path, git commit with
\* message "Update <kind>: x", git push to origin/self, cache rebuild;
\* afterwards read(self/x) returns exactly c, the cache maps self/x to c,
\* and no other item's file or cache entry changed.
C23_WriteOrder ==
    [][(last'.op = "write" /\ last'.result = "ok")
        => LET address == last'.arg
               item == ItemOf(address)
               item_path == <<username, item>>
               content == last'.arg2
           IN  /\ OwnerOf(address) = username
               /\ last'.trace
                    = <<Step("write_text", username), Step("add", username),
                        Commit(username, Message("Update", item)),
                        Step("push", username), Step("load_items", <<>>)>>
               /\ ReadFile(files', address) = [result |-> "ok", out |-> content]
               /\ Lookup(head', item_path) = content
               /\ Lookup(origin', item_path) = content
               /\ Lookup(cached_items', address) = content
               /\ Others(files', item_path) = Others(files, item_path)
               /\ Others(cached_items', address) = Others(cached_items, address)]_vars

(***************************************************************************)
(* The specification of a shared session: a collaborator changes the items *)
(* of their branch at origin while the acting identity syncs, writes,      *)
(* deletes, searches and copies; every version-control command succeeds    *)
(* but the ones sync_all is given to fail.                                 *)
(***************************************************************************)
\* another collaborator pushes a new content for an item of their branch
RemoteUpdate ==
    \E p \in DOMAIN origin, c \in Contents :
        /\ p[1] # username
        /\ Apply("remote_push", p[1], p[2], [Done EXCEPT !.origin = Put(@, p, c)])

NextShared ==
    \/ RemoteUpdate
    \/ SyncAll
    \/ Write(NoFailure)
    \/ Delete(NoFailure)
    \/ Search(NoFailure)
    \/ Copy

SpecShared == InitSession /\ [][NextShared]_vars

(***************************************************************************)
(* The specification of search: one item whose content is any text of at   *)
(* most MaxTextLen characters, lines and indentation included, searched    *)
(* for each query.                                                         *)
(***************************************************************************)
MaxTextLen == 3

TextChars == { "a", "b", " ", NL }
Texts == UNION { [1..n -> TextChars] : n \in 0..MaxTextLen }

InitSearch ==
    /\ username = SessionUser
    /\ kind = "snippet"
    /\ branches = Users
    /\ \E content \in Texts :
          Constructed([p \in { <<SessionUser, <<"x">>>> } |-> content])

NextSearch == Search(NoFailure)

SpecSearch == InitSearch /\ [][NextSearch]_vars

\* the lines of the items in the working trees that contain query, each
\* with its address, its 1-based number and the line as stored
Matches(query) ==
    UNION { { <<Address(p[1], p[2]), i, splitlines(files[p])[i]>> :
                i \in { j \in 1..Len(splitlines(files[p])) :
                          Substring(query, splitlines(files[p])[j]) } } :
            p \in DOMAIN files }

\* C24: search(query) reports exactly the set of triples (address, 1-based
\* line number, line) such that the line of that item's content contains
\* query as a case-sensitive literal substring, the reported line being the
\* line as stored; when no line matches, it reports an empty result and
\* raises no error.
C24_SearchReport ==
    last.op = "search" =>
        /\ last.result = "ok"
        /\ last.out = Matches(last.arg)

(***************************************************************************)
(* Properties of the working trees (checked under SpecSync).               *)
(***************************************************************************)
\* the branches for which the trace issued the step s
Issued(trace, s) ==
    { trace[i].branch : i \in { j \in 1..Len(trace) : trace[j].step = s } }

MaxLines == 3

\* re.match returned None
NoMatch == [matched |-> FALSE, group |-> <<>>]

\* the number of whitespace characters of line from position i on
RECURSIVE Blanks(_, _)
Blanks(line, i) ==
    IF i <= Len(line) /\ line[i] \in Whitespace THEN 1 + Blanks(line, i + 1)
    ELSE 0

\* re.match(r"^[+*]?\s+(.*)$", line): the marker is optional, at least one
\* whitespace character must follow, and group 1 is the rest of the line
MatchBranchLine(line) ==
    LET start == IF line # <<>> /\ Head(line) \in { "+", "*" } THEN 2 ELSE 1
        blanks == Blanks(line, start)
    IN  IF blanks = 0 THEN NoMatch
        ELSE [matched |-> TRUE,
              group |-> SubSeq(line, start + blanks, Len(line))]

\* [re.match(...).group(1) for line in result.stdout.strip().split('\n')]:
\* .group(1) of a line that does not match is an AttributeError on None
_list_branches(stdout) ==
    LET lines == split(strip(stdout), NL)
        matches == [i \in 1..Len(lines) |-> MatchBranchLine(lines[i])]
    IN  IF \E i \in 1..Len(lines) : ~matches[i].matched
        THEN Raise("AttributeError")
        ELSE [Done EXCEPT !.out = [i \in 1..Len(lines) |-> matches[i].group]]

Markers == { "*", "+", " " }
ListedNames == { <<"a">>, <<"b", "c">> }
Listings == UNION { [1..n -> Markers \X ListedNames] : n \in 1..MaxLines }

\* the output of `git branch -a` for a listing
BranchOutput(listing) ==
    join(<<NL>>, [i \in 1..Len(listing) |-> <<listing[i][1], " ">> \o listing[i][2]])
      \o <<NL>>

ListBranches ==
    \E listing \in Listings :
        LET r == _list_branches(BranchOutput(listing))
        IN  /\ last' = [op |-> "list_branches", arg |-> listing,
                        arg2 |-> BranchOutput(listing), result |-> r.result,
                        trace |-> r.trace, out |-> r.out]
            /\ UNCHANGED <<username, kind, branches, worktrees, files, head,
                           origin, cached_items, cached_templates, repo_slug,
                           disk>>

NextBranches == ListBranches

SpecBranches == InitPaths /\ [][NextBranches]_vars

\* C26: list_branches returns exactly the repository's branch names, one
\* per line of the version-control listing, for every listing in which each
\* line is an optional marker ('*' or '+') or a space, followed by
\* whitespace and the name; it does so whichever line comes first and
\* whether or not the first line carries a marker, and never fails on such
\* a listing.
C26_ListBranches ==
    last.op = "list_branches" =>
        /\ last.result = "ok"
        /\ last.out = [i \in 1..Len(last.arg) |-> last.arg[i][2]]

(***************************************************************************)
(* Properties of the prompt store.                                         *)
(***************************************************************************)
\* C27: for the Prompt kind, in every state reachable by any sequence of
\* operations, the template map used by hydrate is the same mapping as the
\* store's item cache used by copy and search, so hydrate(addr) and raw
\* copy(addr) always see the same content for every address.
C27_TemplatesAreCache ==
    kind = "prompt" =>
        /\ cached_templates = cached_items
        /\ \A address \in DOMAIN cached_items :
              hydrate(cached_templates, address, <<>>, <<>>)
                = hydrate(cached_items, address, <<>>, <<>>)

(***************************************************************************)
(* commands/copy_cmd.py copy_item, and the specification of the copy       *)
(* command: a prompt store whose single template is any string of at most  *)
(* MaxLen characters, copied with and without hydration for each argument  *)
(* mapping.  An absent mapping (None) and an empty one are both falsy and  *)
(* are the empty sequence.                                                 *)
(***************************************************************************)
copy_cmd_copy_item(address, args, hydrate_flag) ==
    IF address = <<>> THEN Raise("ValueError")
    ELSE IF kind = "prompt" /\ hydrate_flag
    THEN LET hydrate_args == args      \* args or {}
         IN  copy_item(address, hydrate_args)
    ELSE copy_item(address, <<>>)

\* the mappings parse_copy_args builds: named arguments, then 'suffix'
CopyArgMaps ==
    { <<>>,
      << <<SuffixKey, <<"s">>>> >>,
      << <<<<"a">>, <<"Z">>>> >>,
      << <<<<"a">>, <<"Z">>>>, <<SuffixKey, <<"s">>>> >>,
      << <<<<"a">>, <<"Z">>>>, <<<<"b">>, <<"Z">>>> >> }

CopyCommand ==
    \E address \in TemplateNames, args \in CopyArgMaps, hydrate_flag \in BOOLEAN :
        Apply("copy_command", address, <<args, hydrate_flag>>,
              copy_cmd_copy_item(address, args, hydrate_flag))

\* copy changes nothing but what it delivers: each template is copied once
NextCopy == last.op = "init" /\ CopyCommand

SpecCopy == InitHydrate /\ [][NextCopy]_vars

\* C28: whenever Prompt copy is invoked with hydration requested, for every
\* argument mapping including the empty one and one that holds only the key
\* 'suffix', the text delivered to the clipboard equals hydrate(address,
\* args without 'suffix', args['suffix'] or ""), and copy fails with the
\* missing-arguments error exactly when hydrate would; it never delivers
\* the raw unhydrated template of a prompt that has placeholders.
C28_CopyHydrates ==
    (last.op = "copy_command" /\ last.arg2[2]) =>
        LET args == last.arg2[1]
            without_suffix == PopSuffix(args).rest
            suffix == PopSuffix(args).suffix
            h == hydrate(cached_templates, last.arg, without_suffix, suffix)
        IN  /\ last.result = "ok" => (h.result = "ok" /\ last.out = h.text)
            /\ last.result = "MissingArguments" <=> h.result = "MissingArguments"
            /\ (last.result = "ok" /\ last.arg \in DOMAIN cached_items
                  /\ findall(cached_items[last.arg]) # <<>>
                  /\ without_suffix = <<>>)
                 => last.out # cached_items[last.arg]

(***************************************************************************)
(* The specification of failing version-control steps: the mutating        *)
(* operations in sessions where `git add`, `git commit` or `git push` may  *)
(* exit non-zero, each session followed up to its first failure.           *)
(***************************************************************************)
\* every command exits 0, or the add, the commit or the push fails
StepFailure == { "none", "add", "commit", "push" }

\* the session is followed up to its first failed command
NextFailure ==
    /\ last.result # "ExternalCommandFailure"
    /\ \/ Write(StepFailure)
       \/ Delete(StepFailure)
       \/ Rename(StepFailure)
       \/ Edit(StepFailure)

SpecFailure == InitSession /\ [][NextFailure]_vars

\* C29: state is unchanged on a failed mutation: if any git step (add,
\* commit or push) of write, delete, rename or edit fails, then after the
\* operation returns its error the working-tree files and the cache are as
\* they were before the call, so the cache still equals a scan of the
\* working trees.
C29_FailedMutationUnchanged ==
    [][(last'.op \in { "write", "delete", "rename", "edit" }
          /\ last'.result = "ExternalCommandFailure")
        => /\ files' = files
           /\ cached_items' = cached_items
           /\ cached_items = ScanMap(branches, files)
                => cached_items' = ScanMap(branches', files')]_vars

(***************************************************************************)
(* Properties of publication (checked under SpecConfirm).                  *)
(***************************************************************************)
\* C30: every operation that creates or changes an item file in the acting
\* identity's working tree (write, edit with changes, delete, rename, fork,
\* create_new) stages, commits and pushes that change, so after any
\* sequence of successful operations every item in the cache under the
\* acting identity's branch is committed and pushed to origin/<identity>.
C30_EverythingPushed ==
    (last.result = "ok"
       /\ last.op \in { "write", "delete", "rename", "fork", "create_new" })
    => /\ { "add", "commit", "push" } \subseteq Range(Steps(last.trace))
       /\ \A address \in DOMAIN cached_items :
             OwnerOf(address) = username
               => LET item_path == <<username, ItemOf(address)>>
                  IN  /\ Lookup(head, item_path) = cached_items[address]
                      /\ Lookup(origin, item_path) = cached_items[address]

====
